---- MODULE Spec2Model ----
(***************************************************************************)
(* Loss-curve evaluation of FloodFinJava/loss-model.                        *)
(*                                                                         *)
(* Two variants of calc_losses.py are modelled: "code" is                   *)
(* src/code/calc_losses.py and "src" is src/src/calc_losses.py.  The state  *)
(* machine is main(): load_loss_curves(), then apply_losses() over the      *)
(* asset table, one pass of its loop per configured intensity.              *)
(*                                                                         *)
(* A float64 is modelled as an exact rational <<n, d>> with d > 0 in lowest *)
(* terms, and NaN as <<0, 0>>.  pandas behaviour used by the code           *)
(* (Index.union, Series.interpolate('index'), Index.duplicated, Series.at,  *)
(* Series.sum) is modelled by what it does on those values.                 *)
(***************************************************************************)
EXTENDS Integers, Sequences, FiniteSets, TLC

VARIABLES conf, variant, curve_dir, loss_curves, asset_map, perc_loss,
          loss_value, stats, stdout, error, pc, i

vars == <<conf, variant, curve_dir, loss_curves, asset_map, perc_loss,
          loss_value, stats, stdout, error, pc, i>>

-----------------------------------------------------------------------------
(* Bounds of the explored inputs *)

\* largest number of raw samples in a curve file
MaxSamples == 2
\* largest number of rows in the asset table
MaxAssets == 2

-----------------------------------------------------------------------------
(* float64 arithmetic *)

NaN == <<0, 0>>

IsNaN(x) == x[2] = 0

Abs(n) == IF n < 0 THEN -n ELSE n

RECURSIVE GCD(_, _)
GCD(a, b) == IF b = 0 THEN a ELSE GCD(b, a % b)

\* the rational n/d (d # 0) in lowest terms with a positive denominator
Rat(n, d) ==
  LET s == IF d < 0 THEN -1 ELSE 1
      g == GCD(Abs(n), Abs(d))
  IN  <<(s * n) \div g, (s * d) \div g>>

FromInt(n) == <<n, 1>>

FAdd(x, y) == IF IsNaN(x) \/ IsNaN(y) THEN NaN
              ELSE Rat(x[1] * y[2] + y[1] * x[2], x[2] * y[2])

FSub(x, y) == IF IsNaN(x) \/ IsNaN(y) THEN NaN
              ELSE Rat(x[1] * y[2] - y[1] * x[2], x[2] * y[2])

FMul(x, y) == IF IsNaN(x) \/ IsNaN(y) THEN NaN
              ELSE Rat(x[1] * y[1], x[2] * y[2])

\* x / k for a non-zero integer k
FDivInt(x, k) == IF IsNaN(x) THEN NaN ELSE Rat(x[1], x[2] * k)

\* conversion of a finite float to an integer: the fraction is discarded
\* (int(x) and np.int32(x) both truncate toward zero)
TruncToInt(x) == IF x[1] >= 0 THEN x[1] \div x[2] ELSE -((-x[1]) \div x[2])

-----------------------------------------------------------------------------
(* ordered indexes *)

SetMin(S) == CHOOSE x \in S : \A y \in S : x <= y
SetMax(S) == CHOOSE x \in S : \A y \in S : y <= x

RECURSIVE SortedSeq(_)
SortedSeq(S) == IF S = {} THEN <<>>
                ELSE LET m == SetMin(S) IN <<m>> \o SortedSeq(S \ {m})

-----------------------------------------------------------------------------
(* load_loss_curves.  A Series is a sequence of entries [idx, val] in index *)
(* order; a raw curve file is a function from its sample depths to losses.  *)

\* np.arange(LOSS_CURVE_MAX, step=LOSS_CURVE_RES): 0, res, 2 res, ... < max
NewIndex == {k * conf.res : k \in {j \in 0..conf.max : j * conf.res < conf.max}}

\* loss_curve.reindex(loss_curve.index.union(new_index)): the sorted union of
\* the sample depths and the grid, the grid-only points holding NaN
Reindex(raw) ==
  LET idx == SortedSeq(DOMAIN raw \cup NewIndex)
  IN  [p \in 1..Len(idx) |->
         [idx |-> idx[p],
          val |-> IF idx[p] \in DOMAIN raw THEN raw[idx[p]] ELSE NaN]]

\* the abscissa interpolate() uses for entry p: method 'index' takes the
\* index value (the default method 'linear' would take the position p)
InterpCoordPositional(s, p) == p

InterpCoord(s, p) == s[p].idx

\* a NaN before the first valid entry is preserved (limit_direction is
\* 'forward' by default)
LeadingFill(s, valid) == NaN

\* a NaN after the last valid entry takes that entry's value (np.interp
\* clamps on the right and the default limit_area keeps it; with
\* limit_area='inside' it would stay NaN)
TrailingFillInside(s, valid) == NaN

TrailingFill(s, valid) == s[SetMax(valid)].val

InterpolateAt(s, p) ==
  LET valid == {q \in 1..Len(s) : ~IsNaN(s[q].val)}
      left  == {q \in valid : q < p}
      right == {q \in valid : q > p}
  IN  IF p \in valid THEN s[p].val
      ELSE IF left = {} THEN LeadingFill(s, valid)
      ELSE IF right = {} THEN TrailingFill(s, valid)
      ELSE LET l  == SetMax(left)
               r  == SetMin(right)
               x0 == InterpCoord(s, l)
               x1 == InterpCoord(s, r)
               x  == InterpCoord(s, p)
               dy == FSub(s[r].val, s[l].val)
           IN  FAdd(s[l].val, FDivInt(FMul(dy, FromInt(x - x0)), x1 - x0))

\* loss_curve1.interpolate('index', inplace=True)
Interpolate(s) == [p \in 1..Len(s) |-> [idx |-> s[p].idx, val |-> InterpolateAt(s, p)]]

\* .map(np.int32) of one index value: the fraction is dropped (the depths
\* explored stay far inside the 32-bit range)
IndexToInt32(x) == TruncToInt(x)

\* loss_curve1.index = loss_curve1.index / LOSS_CURVE_RES, then .map(np.int32)
QuantizeIndex(s) ==
  [p \in 1..Len(s) |->
     [idx |-> IndexToInt32(FDivInt(FromInt(s[p].idx), conf.res)), val |-> s[p].val]]

RECURSIVE KeepFirst(_, _)
KeepFirst(s, seen) ==
  IF s = <<>> THEN <<>>
  ELSE IF Head(s).idx \in seen THEN KeepFirst(Tail(s), seen)
  ELSE <<Head(s)>> \o KeepFirst(Tail(s), seen \cup {Head(s).idx})

\* loss_curve1[~loss_curve1.index.duplicated(keep='first')]; the "src"
\* variant has no such statement
RemoveDuplicates(s) == IF variant = "code" THEN KeepFirst(s, {}) ELSE s

\* the body of the loop of load_loss_curves for one curve file
BuildCurve(raw) == RemoveDuplicates(QuantizeIndex(Interpolate(Reindex(raw))))

\* the files of LOSS_CURVES_DIR whose extension is LOSS_CURVES_EXTENSION
CurveFiles == {f \in curve_dir : f.ext = conf.extension}

load_loss_curves ==
  [name \in {f.basename : f \in CurveFiles} |->
     BuildCurve((CHOOSE f \in CurveFiles : f.basename = name).samples)]

-----------------------------------------------------------------------------
(* calculate_perc_loss.  Its outcome is a record: kind "return" (a scalar   *)
(* in val), "return_array" (Series.at on a repeated label gives the array   *)
(* of all matching values, in val), "none" (the function falls off its end  *)
(* and returns None) or "raise" (exc names the exception); out is the set   *)
(* of messages it printed before that.                                      *)

Message(text, depth, curve_name) == [text |-> text, depth |-> depth, curve |-> curve_name]

\* int(x) of the lookup: the fraction is dropped.  Two slips of it: the
\* division by the resolution left out, and rounding to the nearest integer
DepthToIntNoDivision(x) == TruncToInt(<<x[1] * conf.res, x[2]>>)

DepthToIntRound(x) == (2 * x[1] + x[2]) \div (2 * x[2])

DepthToInt(x) == TruncToInt(x)

\* int(asset_row[depth_col] / LOSS_CURVE_RES), for a depth that is not NaN
DepthCm(depth) == DepthToInt(FDivInt(depth, conf.res))

\* the entries loss_curve.at[depth_cm] matches
AtMatches(loss_curve, depth_cm) ==
  SelectSeq(loss_curve, LAMBDA e : e.idx = depth_cm)

\* the branch taken when the curve name is not a key of loss_curves:
\* print "Loss curve <...> unknown" and return None (a slip would return 0)
UnknownCurveZero(curve_name) ==
  [kind |-> "return", val |-> FromInt(0), exc |-> "",
   out |-> {Message("Loss curve unknown", NaN, curve_name)}]

UnknownCurve(curve_name) ==
  [kind |-> "none", val |-> NaN, exc |-> "",
   out |-> {Message("Loss curve unknown", NaN, curve_name)}]

\* the except KeyError handler: "code" prints the message and the function
\* returns None; "src" formats the undefined name depth, a NameError
DepthNotFound(depth, curve_name) ==
  IF variant = "code"
  THEN [kind |-> "none", val |-> NaN, exc |-> "",
        out |-> {Message("Water depth not found in loss curve", depth, curve_name)}]
  ELSE [kind |-> "raise", val |-> NaN, exc |-> "NameError", out |-> {}]

calculate_perc_loss(asset_row, depth_col, curves) ==
  LET curve_name == asset_row.loss_curve
      depth      == asset_row.depth[depth_col]
  IN  IF curve_name \in DOMAIN curves
      THEN IF IsNaN(depth)
           \* int(nan): ValueError, which no handler of either variant catches
           THEN [kind |-> "raise", val |-> NaN, exc |-> "ValueError", out |-> {}]
           ELSE LET m == AtMatches(curves[curve_name], DepthCm(depth))
                IN  IF Len(m) = 0 THEN DepthNotFound(depth, curve_name)
                    ELSE IF Len(m) = 1
                    THEN [kind |-> "return", val |-> m[1].val, exc |-> "", out |-> {}]
                    ELSE [kind |-> "return_array",
                          val |-> [q \in 1..Len(m) |-> m[q].val], exc |-> "", out |-> {}]
      ELSE UnknownCurve(curve_name)

-----------------------------------------------------------------------------
(* apply_losses *)

\* one cell of asset_map.apply(calculate_perc_loss, axis=1, ...): None
\* becomes a missing value
PercLossCell(o) == IF o.kind = "none" THEN NaN ELSE o.val

\* one cell of asset_map[perc_loss_col] * asset_map[asset_value_col]: the
\* product, missing when the fraction is (a slip would fill a missing fraction
\* with 0); an array cell of the "src" variant is multiplied element by element
LossValueCellZeroFill(o, value) ==
  IF o.kind = "return_array" THEN [q \in 1..Len(o.val) |-> FMul(o.val[q], value)]
  ELSE IF IsNaN(PercLossCell(o)) THEN FromInt(0) ELSE FMul(PercLossCell(o), value)

LossValueCell(o, value) ==
  IF o.kind = "return_array" THEN [q \in 1..Len(o.val) |-> FMul(o.val[q], value)]
  ELSE FMul(PercLossCell(o), value)

\* Series.sum(): missing values are skipped (skipna), an empty sum is 0
RECURSIVE SumSkipNa(_)
SumSkipNa(col) ==
  IF col = <<>> THEN FromInt(0)
  ELSE IF IsNaN(Head(col)) THEN SumSkipNa(Tail(col))
  ELSE FAdd(Head(col), SumSkipNa(Tail(col)))

\* astype(bool) of a float: False for 0 only, NaN is True (a test depth > 0
\* would leave NaN and negative depths out)
AsBoolPositive(x) == ~IsNaN(x) /\ x[1] > 0

AsBool(x) == IsNaN(x) \/ x[1] # 0

\* int(asset_map[intensity_col].astype(bool).sum())
FloodedAssets(col) == Cardinality({r \in 1..Len(col) : AsBool(col[r])})

Rows == 1..Len(asset_map)

\* the outcomes of the calls apply() makes for one intensity, row by row
Outcomes(intensity) ==
  [r \in Rows |-> calculate_perc_loss(asset_map[r], intensity, loss_curves)]

\* the rows whose call raises; apply() stops at the first of them
Raising(o) == {r \in Rows : o[r].kind = "raise"}

\* what is printed before apply() ends: every row, or the rows before the
\* first one that raises
Printed(o) ==
  UNION {o[r].out : r \in {q \in Rows : \A x \in Raising(o) : q < x}}

-----------------------------------------------------------------------------
(* main() as a state machine *)

\* main, line 109 ("code") / 96 ("src"): loss_curves = load_loss_curves()
LoadLossCurves ==
  /\ pc = "start"
  /\ loss_curves' = load_loss_curves
  /\ pc' = "loaded"
  /\ UNCHANGED <<conf, variant, curve_dir, asset_map, perc_loss, loss_value,
                 stats, stdout, error, i>>

\* apply_losses up to its loop: "code" keeps the total asset value in stats
ApplyLossesBegin ==
  /\ pc = "loaded"
  /\ stats' = IF variant = "code"
              THEN [stats EXCEPT !.value_sum =
                      ("value" :> SumSkipNa([r \in Rows |-> asset_map[r].value]))]
              ELSE stats
  /\ i' = 1
  /\ pc' = "loop"
  /\ UNCHANGED <<conf, variant, curve_dir, loss_curves, asset_map, perc_loss,
                 loss_value, stdout, error>>

\* one pass of the loop over the intensities
ApplyLossesIntensity ==
  /\ pc = "loop"
  /\ i <= Len(conf.intensities)
  /\ LET intensity == conf.intensities[i]
         o         == Outcomes(intensity)
         lv        == [r \in Rows |-> LossValueCell(o[r], asset_map[r].value)]
     IN  /\ stdout' = stdout \cup Printed(o)
         /\ IF Raising(o) # {}
            THEN /\ pc' = "aborted"
                 /\ error' = [exc |-> o[SetMin(Raising(o))].exc,
                              intensity |-> intensity, row |-> SetMin(Raising(o))]
                 /\ UNCHANGED <<perc_loss, loss_value, stats, i>>
            ELSE /\ perc_loss' = (intensity :> [r \in Rows |-> PercLossCell(o[r])]) @@ perc_loss
                 /\ loss_value' = (intensity :> lv) @@ loss_value
                 /\ stats' = IF variant = "code"
                             THEN [stats EXCEPT
                                     !.loss_value_sum = (intensity :> SumSkipNa(lv)) @@ @,
                                     !.flooded_assets =
                                        (intensity :> FloodedAssets(
                                           [r \in Rows |-> asset_map[r].depth[intensity]])) @@ @]
                             ELSE stats
                 /\ i' = i + 1
                 /\ UNCHANGED <<pc, error>>
  /\ UNCHANGED <<conf, variant, curve_dir, loss_curves, asset_map>>

\* the loop is over: return stats ("code") or None ("src")
ApplyLossesReturn ==
  /\ pc = "loop"
  /\ i > Len(conf.intensities)
  /\ pc' = "done"
  /\ UNCHANGED <<conf, variant, curve_dir, loss_curves, asset_map, perc_loss,
                 loss_value, stats, stdout, error, i>>

Next == LoadLossCurves \/ ApplyLossesBegin \/ ApplyLossesIntensity \/ ApplyLossesReturn

-----------------------------------------------------------------------------
(* Inputs *)

Half == <<1, 2>>

NoError == [exc |-> "", intensity |-> "", row |-> 0]

EmptyStats == [value_sum |-> <<>>, loss_value_sum |-> <<>>, flooded_assets |-> <<>>]

\* a file of the curve directory that is not a curve file
NotesFile == [basename |-> "notes", ext |-> ".txt", samples |-> (0 :> FromInt(1))]

\* raw curve files: up to MaxSamples samples at distinct depths
SampleDepths == {-10, -5, 0, 6, 25, 40}
SampleLosses == {FromInt(0), Half, FromInt(1)}
RawCurves ==
  UNION {[S -> SampleLosses] :
           S \in {T \in SUBSET SampleDepths : 1 <= Cardinality(T) /\ Cardinality(T) <= MaxSamples}}

\* raw depths of an asset: on and off the bucket boundaries, below 0, beyond
\* the curve, and missing
AssetDepths == {NaN} \cup {FromInt(d) : d \in {-15, -10, -5, 0, 6, 10, 16, 20, 25, 40, 50}}

ScenarioDepths == {FromInt(d) : d \in {-5, 0, 50, 150, 156, 200, 500}}

AggDepths == {NaN, FromInt(0), FromInt(50)}

AssetRow(v, c, d) == [value |-> FromInt(v), loss_curve |-> c, depth |-> d]

Start ==
  /\ loss_curves = <<>>
  /\ perc_loss = <<>>
  /\ loss_value = <<>>
  /\ stats = EmptyStats
  /\ stdout = {}
  /\ error = NoError
  /\ pc = "start"
  /\ i = 0

\* one asset against every small curve file
InitCurve ==
  /\ variant \in {"code", "src"}
  /\ conf = [res |-> 10, max |-> 30, extension |-> ".csv", intensities |-> <<"rp100">>]
  /\ \E raw \in RawCurves :
       curve_dir = {[basename |-> "low_rise", ext |-> ".csv", samples |-> raw], NotesFile}
  /\ \E d \in AssetDepths :
       asset_map = <<AssetRow(100000, "low_rise", "rp100" :> d)>>
  /\ Start

\* the three-sample curve at resolution 10 up to depth 200
InitScenario ==
  /\ variant \in {"code", "src"}
  /\ conf = [res |-> 10, max |-> 200, extension |-> ".csv", intensities |-> <<"rp100">>]
  /\ curve_dir = {[basename |-> "low_rise", ext |-> ".csv",
                   samples |-> (0 :> FromInt(0)) @@ (100 :> Half) @@ (200 :> FromInt(1))],
                  NotesFile}
  /\ \E d \in ScenarioDepths, c \in {"low_rise", "notes"} :
       asset_map = <<AssetRow(100000, c, "rp100" :> d)>>
  /\ Start

\* asset tables of up to MaxAssets rows over two intensities
InitAgg ==
  /\ variant = "code"
  /\ conf = [res |-> 10, max |-> 60, extension |-> ".csv",
             intensities |-> <<"rp10", "rp100">>]
  /\ curve_dir = {[basename |-> "low_rise", ext |-> ".csv",
                   samples |-> (0 :> FromInt(0)) @@ (100 :> Half)], NotesFile}
  /\ \E n \in 1..MaxAssets :
       asset_map \in [1..n -> {AssetRow(v, c, d) :
                                 v \in {100000, 700000},
                                 c \in {"low_rise", "nonexistent"},
                                 d \in [{"rp10", "rp100"} -> AggDepths]}]
  /\ Start

Init == InitCurve \/ InitScenario \/ InitAgg

Spec == Init /\ [][Next]_vars

-----------------------------------------------------------------------------
(* Vocabulary of the properties *)

Loaded == pc # "start"

\* the intensities whose derived columns exist
Processed == DOMAIN perc_loss

Depth(r, n) == asset_map[r].depth[n]

CurveOf(r) == asset_map[r].loss_curve

KnownCurve(r) == CurveOf(r) \in DOMAIN loss_curves

Samples(name) ==
  (CHOOSE f \in curve_dir : f.basename = name /\ f.ext = conf.extension).samples

MinSample(name) == SetMin(DOMAIN Samples(name))
MaxSample(name) == SetMax(DOMAIN Samples(name))

\* n / k with the fraction discarded, for k > 0
TowardZero(n, k) == IF n >= 0 THEN n \div k ELSE -((-n) \div k)

\* the bucket of a depth that is not NaN, by truncation
BucketOf(d) == TowardZero(d[1], d[2] * conf.res)

\* b is an integer nearest to d / resolution
Nearest(b, d) == 2 * Abs(d[1] - b * d[2] * conf.res) <= d[2] * conf.res

Grid == {g \in 0..(conf.max - 1) : g % conf.res = 0}

\* the depth points of a curve: raw samples and grid
Merged(name) == DOMAIN Samples(name) \cup Grid

\* p is the smallest merged depth of its bucket
FirstInBucket(name, p) ==
  \A q \in Merged(name) : q < p => BucketOf(FromInt(q)) # BucketOf(FromInt(p))

\* the values stored under bucket b
Stored(name, b) ==
  {loss_curves[name][q].val : q \in {x \in 1..Len(loss_curves[name]) : loss_curves[name][x].idx = b}}

\* the value a lookup of bucket b gives when b is stored once, else missing
StoredValue(name, b) ==
  IF Cardinality(Stored(name, b)) = 1 THEN CHOOSE v \in Stored(name, b) : TRUE ELSE NaN

Buckets(name) == {loss_curves[name][q].idx : q \in 1..Len(loss_curves[name])}

NotFoundMessage(r, n) == Message("Water depth not found in loss curve", Depth(r, n), CurveOf(r))

\* linear interpolation by depth between the raw samples next to depth n
ExpectedInterp(raw, n) ==
  LET lo == SetMax({x \in DOMAIN raw : x <= n})
      hi == SetMin({x \in DOMAIN raw : x >= n})
  IN  IF lo = hi THEN raw[lo]
      ELSE FAdd(raw[lo], FDivInt(FMul(FSub(raw[hi], raw[lo]), FromInt(n - lo)), hi - lo))

\* depth of row r for intensity n is a multiple of the resolution in
\* [0, max_depth) and inside the raw samples' range, its curve known
OnGridInRange(r, n) ==
  /\ KnownCurve(r)
  /\ ~IsNaN(Depth(r, n))
  /\ Depth(r, n)[2] = 1
  /\ Depth(r, n)[1] % conf.res = 0
  /\ 0 <= Depth(r, n)[1] /\ Depth(r, n)[1] < conf.max
  /\ MinSample(CurveOf(r)) <= Depth(r, n)[1]
  /\ Depth(r, n)[1] <= MaxSample(CurveOf(r))

InterpolatedLoss(r, n) ==
  /\ perc_loss[n][r] = ExpectedInterp(Samples(CurveOf(r)), Depth(r, n)[1])
  /\ loss_value[n][r] = FMul(ExpectedInterp(Samples(CurveOf(r)), Depth(r, n)[1]),
                             asset_map[r].value)

RECURSIVE SumPresent(_, _)
SumPresent(col, R) ==
  IF R = {} THEN FromInt(0)
  ELSE LET r == CHOOSE x \in R : TRUE
       IN  IF IsNaN(col[r]) THEN SumPresent(col, R \ {r})
           ELSE FAdd(col[r], SumPresent(col, R \ {r}))

-----------------------------------------------------------------------------
(* Properties *)

\* C1 as stated: in the "code" variant, an asset whose depth is a multiple of
\* the resolution in [0, max_depth) and inside the raw samples' range gets the
\* linear interpolation of the neighbouring raw samples as fractional loss,
\* and that fraction times its value as monetary loss.
C1_Original ==
  variant = "code" =>
    \A n \in Processed : \A r \in Rows : OnGridInRange(r, n) => InterpolatedLoss(r, n)

\* C1 amended: the same, for a depth above 0, and for depth 0 when no raw
\* sample lies strictly between -resolution and 0 (such a sample truncates to
\* bucket 0 too and, being smaller, is the entry kept for bucket 0).
C1_Amended ==
  variant = "code" =>
    \A n \in Processed : \A r \in Rows :
      ( /\ OnGridInRange(r, n)
        /\ \/ Depth(r, n)[1] > 0
           \/ \A x \in DOMAIN Samples(CurveOf(r)) : ~(-conf.res < x /\ x < 0) )
      => InterpolatedLoss(r, n)

C1_Witness ==
  /\ variant = "code" /\ pc = "done"
  /\ conf.res = 10 /\ conf.max = 200
  /\ Samples("low_rise") = (0 :> FromInt(0)) @@ (100 :> Half) @@ (200 :> FromInt(1))
  /\ asset_map = <<AssetRow(100000, "low_rise", "rp100" :> FromInt(150))>>
  /\ perc_loss["rp100"][1] = <<3, 4>>
  /\ loss_value["rp100"][1] = FromInt(75000)

\* C2 as stated: in the "code" variant the stored buckets are the merged
\* depths rounded to a nearest integer of depth / resolution, and a lookup
\* reads the bucket nearest to the asset's depth / resolution.
C2_Original ==
  (variant = "code" /\ Loaded) =>
    /\ \A name \in DOMAIN loss_curves :
         /\ \A b \in Buckets(name) : \E p \in Merged(name) : Nearest(b, FromInt(p))
         /\ \A p \in Merged(name) : \E b \in Buckets(name) : Nearest(b, FromInt(p))
    /\ \A n \in Processed : \A r \in Rows :
         (KnownCurve(r) /\ ~IsNaN(Depth(r, n))) =>
           \E b \in (BucketOf(Depth(r, n)) - 1)..(BucketOf(Depth(r, n)) + 1) :
             /\ Nearest(b, Depth(r, n))
             /\ perc_loss[n][r] = StoredValue(CurveOf(r), b)

\* C2 amended: the bucket index is depth / resolution truncated toward zero,
\* at construction and at lookup (depth 156 at resolution 10 reads bucket 15).
C2_Truncates ==
  (variant = "code" /\ Loaded) =>
    /\ \A name \in DOMAIN loss_curves :
         Buckets(name) = {BucketOf(FromInt(p)) : p \in Merged(name)}
    /\ \A n \in Processed : \A r \in Rows :
         (KnownCurve(r) /\ ~IsNaN(Depth(r, n))) =>
           perc_loss[n][r] = StoredValue(CurveOf(r), BucketOf(Depth(r, n)))

C2_Witness ==
  /\ variant = "code" /\ pc = "done"
  /\ conf.res = 10
  /\ asset_map = <<AssetRow(100000, "low_rise", "rp100" :> FromInt(156))>>
  /\ StoredValue("low_rise", 15) = <<3, 4>>
  /\ StoredValue("low_rise", 16) = <<4, 5>>
  /\ perc_loss["rp100"][1] = <<3, 4>>

\* C3 as stated: the evaluation of the "code" variant never aborts, whatever
\* the curve identifiers and raw depths are.
C3_NeverAborts == variant = "code" => pc # "aborted"

\* the bucket of row r's depth for intensity n has no entry in its curve
Miss(r, n) ==
  /\ Loaded
  /\ KnownCurve(r)
  /\ ~IsNaN(Depth(r, n))
  /\ BucketOf(Depth(r, n)) \notin Buckets(CurveOf(r))

\* C4 as stated: in both variants a lookup whose bucket is absent from the
\* curve does not raise; it is reported and the fractional loss is missing.
C4_MissIsReported ==
  \A r \in Rows : \A n \in {conf.intensities[k] : k \in 1..Len(conf.intensities)} :
    Miss(r, n) =>
      /\ ~(pc = "aborted" /\ error.row = r /\ error.intensity = n)
      /\ n \in Processed =>
           (IsNaN(perc_loss[n][r]) /\ NotFoundMessage(r, n) \in stdout)

\* C5: an asset whose curve is not in the curve store never stops the
\* evaluation; for every intensity its fractional and monetary loss are
\* missing and the loss sum is the sum over the other assets.
C5_UnknownCurveMissing ==
  \A r \in Rows :
    (Loaded /\ ~KnownCurve(r)) =>
      /\ ~(pc = "aborted" /\ error.row = r)
      /\ \A n \in Processed :
           /\ IsNaN(perc_loss[n][r])
           /\ IsNaN(loss_value[n][r])
           /\ variant = "code" =>
                stats.loss_value_sum[n] = SumPresent(loss_value[n], Rows \ {r})

C5_Witness ==
  /\ variant = "code" /\ pc = "done"
  /\ Len(asset_map) = 2
  /\ CurveOf(1) = "nonexistent" /\ KnownCurve(2)
  /\ IsNaN(perc_loss["rp100"][1]) /\ IsNaN(loss_value["rp100"][1])
  /\ loss_value["rp100"][2] = FromInt(25000)
  /\ stats.loss_value_sum["rp100"] = FromInt(25000)

\* p lies outside the raw samples' depth range of the curve
OutOfRange(name, p) == p < MinSample(name) \/ p > MaxSample(name)

OutsideValue(name, p) ==
  IF p < MinSample(name) THEN NaN ELSE Samples(name)[MaxSample(name)]

C7_UniqueBuckets ==
  Loaded =>
    \A name \in DOMAIN loss_curves :
      /\ \A p, q \in 1..Len(loss_curves[name]) :
           loss_curves[name][p].idx = loss_curves[name][q].idx => p = q
      /\ LET pts == Interpolate(Reindex(Samples(name)))
         IN  \A p \in 1..Len(pts) :
               FirstInBucket(name, pts[p].idx) =>
                 Stored(name, BucketOf(FromInt(pts[p].idx))) = {pts[p].val}

\* C8: in the "code" variant the total asset value is the sum over all
\* assets from the start of the loop on; for every processed intensity the
\* monetary loss is missing exactly when the fractional loss is, is their
\* product otherwise, and the loss sum adds the non-missing losses only.
C8_MissingPropagates ==
  variant = "code" =>
    /\ pc \in {"loop", "done", "aborted"} =>
         stats.value_sum["value"] = SumPresent([r \in Rows |-> asset_map[r].value], Rows)
    /\ \A n \in Processed :
         /\ \A r \in Rows :
              /\ IsNaN(loss_value[n][r]) <=> IsNaN(perc_loss[n][r])
              /\ ~IsNaN(perc_loss[n][r]) =>
                   loss_value[n][r] = FMul(perc_loss[n][r], asset_map[r].value)
         /\ stats.loss_value_sum[n] = SumPresent(loss_value[n], Rows)

C8_Witness ==
  /\ variant = "code" /\ pc = "done"
  /\ Processed = {"rp10", "rp100"}
  /\ Len(asset_map) = 2
  /\ IsNaN(perc_loss["rp100"][1]) /\ IsNaN(loss_value["rp100"][1])
  /\ perc_loss["rp100"][2] = <<1, 4>>
  /\ loss_value["rp100"][2] = FromInt(175000)
  /\ stats.loss_value_sum["rp100"] = FromInt(175000)
  /\ stats.loss_value_sum["rp10"] = FromInt(0)
  /\ stats.value_sum["value"] = FromInt(800000)

\* C9: a depth that is an exact multiple of the resolution (negative or 0
\* included) gets at lookup the bucket under which the merged point at that
\* depth was stored at construction, depth / resolution, and in the "code"
\* variant the lookup of such a merged depth reads that bucket.
C9_SameBucket ==
  Loaded =>
    /\ \A f \in CurveFiles :
         LET pts == Reindex(f.samples)
             qs  == QuantizeIndex(pts)
         IN  \A p \in 1..Len(pts) :
               pts[p].idx % conf.res = 0 =>
                 /\ DepthCm(FromInt(pts[p].idx)) = qs[p].idx
                 /\ qs[p].idx * conf.res = pts[p].idx
    /\ variant = "code" =>
         \A n \in Processed : \A r \in Rows :
           ( /\ KnownCurve(r) /\ ~IsNaN(Depth(r, n)) /\ Depth(r, n)[2] = 1
             /\ Depth(r, n)[1] % conf.res = 0
             /\ Depth(r, n)[1] \in Merged(CurveOf(r)) )
           => \E b \in Buckets(CurveOf(r)) :
                /\ b * conf.res = Depth(r, n)[1]
                /\ perc_loss[n][r] = StoredValue(CurveOf(r), b)

C9_Witness ==
  /\ variant = "code" /\ pc = "done"
  /\ -10 \in DOMAIN Samples("low_rise")
  /\ Samples("low_rise")[-10] = Half
  /\ asset_map = <<AssetRow(100000, "low_rise", "rp100" :> FromInt(-10))>>
  /\ StoredValue("low_rise", -1) = Half
  /\ perc_loss["rp100"][1] = Half

\* C10: in the "code" variant the flooded-assets count of a processed
\* intensity is the number of assets whose raw depth for it is not 0,
\* whatever their curve and resolved loss.
C10_FloodedCount ==
  variant = "code" =>
    \A n \in Processed :
      stats.flooded_assets[n] =
        Cardinality({r \in Rows : Depth(r, n) # FromInt(0)})

C10_Witness ==
  /\ variant = "code" /\ pc = "done"
  /\ Len(asset_map) = 2
  /\ Depth(1, "rp100") = FromInt(50) /\ Depth(2, "rp100") = FromInt(0)
  /\ perc_loss["rp100"][1] = <<1, 4>> /\ perc_loss["rp100"][2] = FromInt(0)
  /\ stats.flooded_assets["rp100"] = 1

====
